---- MODULE Spec2Model ----
(***************************************************************************)
(* A model of PurritoBin's upload path (src/purrito.cc): the POST handler  *)
(* of purr, the onData callback registered by read_paste, save_buffer and  *)
(* random_slug.  Strings are sequences of character codes; the uWebSockets *)
(* event loop runs every handler to completion on one thread, so each      *)
(* handler is one action.                                                  *)
(***************************************************************************)
EXTENDS Integers, Sequences, FiniteSets, TLC

(* ------------------------------ bounds -------------------------------- *)
\* largest settings.max_paste_size explored
MaxPasteSize == 1
\* largest settings.slug_size explored
MaxSlugSize == 1
\* longest body fragment the transport delivers
MaxFragLen == 1
\* total number of body fragments the transport delivers in one run
MaxFragments == 2

(* ------------------------- program constants -------------------------- *)
\* '\0', the C string terminator (buffer[*read_count] = '\0')
NUL == 0
\* '\n', appended to the paste url
NL == 10
\* '/', the preferred separator of std::filesystem::path
SEP == 47
\* The modulus of uint32_t (max_chars, read_count, copy_size).  TLC's own
\* integers are 32 bits wide, so the word is scaled from 32 bits to 8: the
\* unsigned values are 0..255 and int is -128..127.
Uint32 == 256
\* the first unsigned value that converts to a negative int (2^31, scaled)
Int31 == 128
\* a byte of the malloc'ed buffer that has not been written yet
Uninit == -1
\* what malloc returns when it cannot allocate
NullPtr == [null |-> TRUE, mem |-> <<>>]
\* no response has been handed to the transport
NoResponse == [sent |-> FALSE, body |-> <<>>]

\* the requests in flight: two, so that every pair of sessions interleaves
Sessions == {1, 2}
\* the threads that call random_slug at once in SpecRace
Threads == {1, 2}
\* body bytes: NUL and an ordinary character ('a')
Bytes == {0, 97}

\* sequences over S of length at most n
RECURSIVE SeqUpTo(_, _)
SeqUpTo(S, n) ==
  IF n = 0 THEN {<<>>}
  ELSE LET shorter == SeqUpTo(S, n - 1)
       IN shorter \cup {Append(q, x) : q \in {r \in shorter : Len(r) = n - 1}, x \in S}

\* the fragments (std::string_view chunk) the transport may deliver
Fragments == SeqUpTo(Bytes, MaxFragLen)

\* settings.domain and settings.storage_directory: "h/" and "d"
Domains == {<<104, SEP>>}
Dirs == {<<100>>}

Min(a, b) == IF a < b THEN a ELSE b
Max(a, b) == IF a > b THEN a ELSE b

(* ------------------------------ state --------------------------------- *)
VARIABLES
  settings,     \* purrito_settings, immutable after startup
  rng_state,    \* the state of the global std::mt19937 rng
  seed,         \* the state rng was seeded to (history)
  pc,           \* per request: "idle", "open", "ended", "aborted"
  buffer,       \* per request: the malloc'ed buffer (mem[i+1] is buffer[i]) or NullPtr
  read_count,   \* per request: *read_count
  perr,         \* per request: what read_paste returned
  response,     \* per request: the body res->end was given, or NoResponse
  delivered,    \* per request: concatenation of the fragments delivered (history)
  files,        \* the filesystem: path |-> file content
  writes,       \* every save_buffer call, in order (history)
  nfrags,       \* fragments delivered so far
  crashed,      \* the process died
  heap,         \* the live allocations: [sess, what], what "buffer" or "read_count"
  wrote,        \* per request: the buffer indexes its callback has written (history)
  final_seen,   \* per request: the transport has delivered its final fragment (history)
  clamp,        \* SpecClamp: the operands given to the copy_size expression and its value
  thr_pc,       \* per thread in random_slug: "idle", "load", "store", "done"
  thr_i,        \* per thread: the loop counter i
  thr_y,        \* per thread: the generator state its rng() call has read
  thr_rslug,    \* per thread: rslug[0..i-1]
  thr_slug      \* per thread: the slug returned

vars == <<settings, rng_state, seed, pc, buffer, read_count, perr, response,
          delivered, files, writes, nfrags, crashed, heap, wrote, final_seen, clamp,
          thr_pc, thr_i, thr_y, thr_rslug, thr_slug>>

sessionVars == <<pc, buffer, read_count, perr, response, delivered, files, writes,
                 nfrags, crashed, heap, wrote, final_seen>>
threadVars == <<thr_pc, thr_i, thr_y, thr_rslug, thr_slug>>
\* what the handlers of the event loop never touch
auxVars == <<threadVars, clamp>>

(* --------------------------- pure functions --------------------------- *)
\* conversion of an unsigned value to int (two's complement, 32 bits)
ToInt(x) == LET m == x % Uint32 IN IF m >= Int31 THEN m - Uint32 ELSE m

\* uint32_t max_chars = settings.max_paste_size / sizeof(char)
MaxChars(st) == (st.max_paste_size \div 1) % Uint32

\* a plausible slip: the remaining capacity left out of the minimum
CopySizeNoClamp(max_chars, rc, chunk_size) == Max(0, ToInt(chunk_size)) % Uint32
\* std::max<int>(0, std::min<int>(max_chars - *read_count, chunk.size())),
\* stored into uint32_t copy_size
CopySize(max_chars, rc, chunk_size) ==
  Max(0, Min(ToInt((max_chars - rc) % Uint32), ToInt(chunk_size))) % Uint32

\* chunk.copy(dest, count): copies min(count, chunk.size()) characters to
\* dest = buffer + off; buf is the buffer before the call
StringViewCopy(buf, off, chunk, count) ==
  LET rcount == Min(count, Len(chunk))
  IN [i \in 1..Len(buf) |->
        IF i - 1 >= off /\ i - 1 < off + rcount THEN chunk[i - off] ELSE buf[i]]

\* the bytes chunk.copy and the terminator touch lie inside the allocation
InBounds(buf, off, count) == off + count <= Len(buf)

\* strlen from position i of a character array
RECURSIVE strlen(_, _)
strlen(buf, i) ==
  IF i >= Len(buf) THEN Len(buf)
  ELSE IF buf[i + 1] = NUL THEN i ELSE strlen(buf, i + 1)

\* what a const char * denotes as a string (std::string(const char *),
\* printf's %s, res->end(const char *)): the characters before the first NUL
CStr(buf) == SubSeq(buf, 1, strlen(buf, 0))

\* std::string alphanum = "0123456789abcdefghijklmnopqrstuvwxyz"
alphanum ==
  <<48, 49, 50, 51, 52, 53, 54, 55, 56, 57,
    97, 98, 99, 100, 101, 102, 103, 104, 105, 106, 107, 108, 109,
    110, 111, 112, 113, 114, 115, 116, 117, 118, 119, 120, 121, 122>>

\* std::string::operator[]: position size() reads the terminating NUL
StringAt(str, pos) == IF pos < Len(str) THEN str[pos + 1] ELSE NUL

\* The global std::mt19937: a deterministic generator, here the position in
\* a fixed cycle of output words (0, 36, 2^31 - 1, 35, 71).
RngWords == <<0, 36, 2147483647, 35, 71>>
\* the states the clock may seed the generator to
Seeds == {0, 2}
\* the word rng() returns in state st
rng_word(st) == RngWords[st + 1]
\* the state rng() leaves behind
rng_advance(st) == (st + 1) % Len(RngWords)

\* a plausible slip: the separator between directory and slug left out
PathJoinNoSep(dir, slug) == dir \o slug

\* a plausible slip: sampling one position past the end of the alphabet
SlugIndexOffByOne(word, len) == word % (len + 1)
\* rng() % len
SlugIndex(word, len) == word % len

\* the loop of random_slug: rslug[i] = alphanum[rng() % len]
RECURSIVE slug_loop(_, _, _, _)
slug_loop(i, slug_size, rslug, st) ==
  IF i < slug_size
  THEN slug_loop(i + 1, slug_size,
                 Append(rslug, StringAt(alphanum, SlugIndex(rng_word(st), Len(alphanum)))),
                 rng_advance(st))
  ELSE [rslug |-> rslug, rng |-> st]

\* random_slug(slug_size) called with the generator in state st: the slug
\* (rslug[slug_size] = '\0'; std::string new_slug(rslug)) and the new state
random_slug(slug_size, st) ==
  LET r == slug_loop(0, slug_size, <<>>, st)
  IN [slug |-> CStr(Append(r.rslug, NUL)), rng |-> r.rng]

\* ofile = settings.storage_directory; ofile /= slug
PathJoin(dir, slug) == dir \o <<SEP>> \o slug

\* a plausible slip: the url without its trailing newline
UrlNoNewline(domain, slug) == domain \o slug
\* settings.domain + slug + "\n"
paste_url(domain, slug) == domain \o slug \o <<NL>>

\* a plausible slip: opening the file in append mode
FopenAppend(existing) == existing
\* fopen(path, "w"): the file is created empty or truncated
FopenW(existing) == <<>>

\* the content of path p before an fopen (<<>> when there is no such file)
Existing(p) == IF p \in DOMAIN files THEN files[p] ELSE <<>>

(* ----------------------------- operations ----------------------------- *)
InitProgram ==
  /\ settings \in [max_paste_size : 0..MaxPasteSize, slug_size : 0..MaxSlugSize,
                   domain : Domains, storage_directory : Dirs]
  /\ rng_state \in Seeds
  /\ seed = rng_state
  /\ pc = [s \in Sessions |-> "idle"]
  /\ buffer = [s \in Sessions |-> NullPtr]
  /\ read_count = [s \in Sessions |-> 0]
  /\ perr = [s \in Sessions |-> 0]
  /\ response = [s \in Sessions |-> NoResponse]
  /\ delivered = [s \in Sessions |-> <<>>]
  /\ files = <<>>
  /\ writes = <<>>
  /\ nfrags = 0
  /\ crashed = FALSE
  /\ heap = {}
  /\ wrote = [s \in Sessions |-> {}]
  /\ final_seen = [s \in Sessions |-> FALSE]
  /\ thr_pc = [t \in Threads |-> "idle"]
  /\ thr_i = [t \in Threads |-> 0]
  /\ thr_y = [t \in Threads |-> 0]
  /\ thr_rslug = [t \in Threads |-> <<>>]
  /\ thr_slug = [t \in Threads |-> <<>>]

\* the copy_size expression has not been evaluated
ClampIdle == [max_chars |-> 0, read_count |-> 0, chunk_size |-> 0,
              done |-> FALSE, copy_size |-> 0]

Init == InitProgram /\ clamp = ClampIdle

\* a plausible slip: no room for the terminator
MallocNoTerminator(max_chars, ok) ==
  IF ok THEN [null |-> FALSE, mem |-> [i \in 1..(max_chars % Uint32) |-> Uninit]]
  ELSE NullPtr
\* buffer = (char *)malloc(max_chars + 1): uninitialised memory, or NULL
Malloc(max_chars, ok) ==
  IF ok THEN [null |-> FALSE, mem |-> [i \in 1..((max_chars + 1) % Uint32) |-> Uninit]]
  ELSE NullPtr

\* read_paste: the value it returns (return 0 is its only return)
read_paste_result(buf) == 0

\* The POST handler of purr for a new request s: read_paste allocates the
\* buffer and the counter and registers onData (inside res->cork, before it
\* returns); purr then attaches onAborted unless perr is not 0.  Requests
\* are numbered in the order they arrive.
Post(s, alloc_ok) ==
  /\ ~crashed
  /\ pc[s] = "idle"
  /\ \A r \in Sessions : r < s => pc[r] # "idle"
  /\ LET buf == Malloc(MaxChars(settings), alloc_ok)
     IN /\ buffer' = [buffer EXCEPT ![s] = buf]
        /\ perr' = [perr EXCEPT ![s] = read_paste_result(buf)]
        /\ heap' = heap \cup (IF buf.null THEN {} ELSE {[sess |-> s, what |-> "buffer"]})
                       \cup {[sess |-> s, what |-> "read_count"]}
  /\ read_count' = [read_count EXCEPT ![s] = 0]
  /\ pc' = [pc EXCEPT ![s] = "open"]
  /\ UNCHANGED <<settings, rng_state, seed, response, delivered, files, writes,
                 nfrags, crashed, wrote, final_seen, auxVars>>

\* What one call save_buffer(buf, settings) does, given what the filesystem
\* does: fo is fopen's outcome ("ok" or "null"), wr the write's ("ok",
\* "fail": fprintf returns a negative value, "closefail": the flush in
\* fclose fails), k the characters that reach the file when cut short.
SaveOutcome(buf, fo, wr, k) ==
  LET sl == random_slug(settings.slug_size, rng_state)
      ofile == PathJoin(settings.storage_directory, sl.slug)
      content == CStr(buf)
      put == IF wr = "ok" THEN content ELSE SubSeq(content, 1, k)
  IN [slug |-> sl.slug,
      rng |-> sl.rng,
      path |-> ofile,
      opened |-> fo = "ok",
      content |-> content,
      file |-> FopenW(Existing(ofile)) \o put,
      write_err |-> IF wr = "fail" THEN -1 ELSE Len(content),
      url |-> paste_url(settings.domain, sl.slug)]

\* the outcomes the filesystem can produce for a save of buf: a path that
\* names a directory (an empty slug) cannot be opened for writing, and a
\* write is cut short only if there is something to write
WriteOutcomes(buf) ==
  LET sl == random_slug(settings.slug_size, rng_state)
      n == Len(CStr(buf))
  IN {[fo |-> "null", wr |-> "ok", k |-> 0]}
     \cup (IF sl.slug = <<>> THEN {}
          ELSE {[fo |-> "ok", wr |-> "ok", k |-> 0]}
               \cup [fo : {"ok"}, wr : {"fail", "closefail"}, k : 0..(n - 1)])

\* res->end(paste_url.c_str())
ResEnd(url) == CStr(Append(url, NUL))

\* save_buffer called for request s.  With fopen returning NULL,
\* fprintf(NULL, ...) is undefined: the process dies in the C library.
save_buffer(s, buf, fo, wr, k) ==
  LET o == SaveOutcome(buf, fo, wr, k)
  IN /\ rng_state' = o.rng
     /\ writes' = Append(writes,
          [sess |-> s, slug |-> o.slug, path |-> o.path, content |-> o.content,
           opened |-> o.opened, write_err |-> o.write_err,
           full |-> o.opened /\ wr = "ok",
           warned |-> o.opened /\ o.write_err < 0,
           url |-> o.url])
     /\ IF o.opened
        THEN /\ files' = [p \in DOMAIN files \cup {o.path} |->
                            IF p = o.path THEN o.file ELSE files[p]]
             /\ response' = [response EXCEPT ![s] = [sent |-> TRUE, body |-> ResEnd(o.url)]]
             /\ pc' = [pc EXCEPT ![s] = "ended"]
             /\ crashed' = crashed
        ELSE /\ crashed' = TRUE
             /\ UNCHANGED <<files, response, pc>>

\* a plausible slip: one buffer and one counter serving every request
capturedShared(s) == 1
\* [=]: the callback holds the buffer and read_count pointers of its own
\* read_paste call
captured(s) == s

\* a plausible slip: the count advanced for every fragment
CountsAlways(is_last) == TRUE
\* the outer if (is_last) around the increment of *read_count
CountsFragment(is_last) == is_last

\* a plausible slip: the stop test placed after the outer if, not inside it
StopsUnnested(counted, is_last, rc, max_chars) == is_last \/ rc = max_chars
\* if (is_last || *read_count == max_chars), reached only inside the outer
\* if (is_last), that is when the fragment was counted
StopsAndSaves(counted, is_last, rc, max_chars) ==
  counted /\ (is_last \/ rc = max_chars)

\* *read_count = copy_size + *read_count
NewReadCount(copy_size, rc) == (copy_size + rc) % Uint32

\* The onData callback of request s for one fragment.  A write outside the
\* allocation is undefined: the process dies, or goes on with the bytes
\* that fell outside lost to the model.
onData(s, chunk, is_last) ==
  LET b == captured(s)
      max_chars == MaxChars(settings)
      off == read_count[b]
      copy_size == CopySize(max_chars, off, Len(chunk))
      copied == Min(copy_size, Len(chunk))
      counts == CountsFragment(is_last)
      rc == IF counts THEN NewReadCount(copy_size, off) ELSE off
      stops == StopsAndSaves(counts, is_last, rc, max_chars)
      idx == (off..(off + copied - 1)) \cup (IF stops THEN {rc} ELSE {})
  IN
  /\ ~crashed
  /\ pc[s] = "open"
  /\ ~final_seen[s]
  /\ nfrags < MaxFragments
  /\ nfrags' = nfrags + 1
  /\ delivered' = [delivered EXCEPT ![s] = @ \o chunk]
  /\ final_seen' = [final_seen EXCEPT ![s] = is_last]
  /\ wrote' = [wrote EXCEPT ![b] = @ \cup idx]
  /\ IF buffer[b].null
     THEN \* a write through the null pointer kills the process
          /\ crashed' = (idx # {})
          /\ UNCHANGED <<buffer, read_count, rng_state, writes, files, response, pc>>
     ELSE LET mem == buffer[b].mem
              buf1 == StringViewCopy(mem, off, chunk, copy_size)
              buf2 == IF stops /\ rc < Len(buf1) THEN [buf1 EXCEPT ![rc + 1] = NUL]
                      ELSE buf1
              oob == ~InBounds(mem, off, copied) \/ (stops /\ ~InBounds(mem, rc, 1))
          IN /\ buffer' = [buffer EXCEPT ![b].mem = buf2]
             /\ read_count' = [read_count EXCEPT ![b] = rc]
             /\ \E dies \in (IF oob THEN BOOLEAN ELSE {FALSE}) :
                  IF dies
                  THEN /\ crashed' = TRUE
                       /\ UNCHANGED <<rng_state, writes, files, response, pc>>
                  ELSE IF stops
                  THEN \E out \in WriteOutcomes(buf2) :
                         save_buffer(s, buf2, out.fo, out.wr, out.k)
                  ELSE UNCHANGED <<rng_state, writes, files, response, pc, crashed>>
  /\ UNCHANGED <<settings, seed, perr, heap, auxVars>>

\* a plausible slip: the abort handler flushes what has arrived to a file
onAbortedSave(s) ==
  LET sl == random_slug(settings.slug_size, rng_state)
      ofile == PathJoin(settings.storage_directory, sl.slug)
  IN /\ rng_state' = sl.rng
     /\ files' = [p \in DOMAIN files \cup {ofile} |->
                    IF p = ofile THEN delivered[s] ELSE files[p]]
     /\ writes' = Append(writes,
          [sess |-> s, slug |-> sl.slug, path |-> ofile, content |-> delivered[s],
           opened |-> TRUE, write_err |-> Len(delivered[s]), full |-> TRUE,
           warned |-> FALSE, url |-> paste_url(settings.domain, sl.slug)])
     /\ UNCHANGED <<response, buffer, read_count>>
\* the handler given to res->onAborted: it prints a warning
onAborted(s) ==
  UNCHANGED <<files, writes, rng_state, response, buffer, read_count>>

\* The transport reports that request s ended prematurely; it delivers no
\* fragment to a request it has closed.
Abort(s) ==
  /\ ~crashed
  /\ pc[s] = "open"
  /\ pc' = [pc EXCEPT ![s] = "aborted"]
  /\ onAborted(s)
  /\ UNCHANGED <<settings, seed, perr, delivered, nfrags, crashed, heap, wrote,
                 final_seen, auxVars>>

Next ==
  \/ \E s \in Sessions, alloc_ok \in BOOLEAN : Post(s, alloc_ok)
  \/ \E s \in Sessions, chunk \in Fragments, is_last \in BOOLEAN :
       onData(s, chunk, is_last)
  \/ \E s \in Sessions : Abort(s)

Spec == Init /\ [][Next]_vars

(* ------------- random_slug called from several threads ---------------- *)
\* rng is one global std::mt19937 with no lock: rng() reads the state,
\* computes the word and writes the advanced state back, and another
\* thread may run between the read and the write.

\* thread t enters random_slug(settings.slug_size)
RaceCall(t) ==
  /\ thr_pc[t] = "idle"
  /\ thr_pc' = [thr_pc EXCEPT ![t] = "load"]
  /\ thr_i' = [thr_i EXCEPT ![t] = 0]
  /\ thr_rslug' = [thr_rslug EXCEPT ![t] = <<>>]
  /\ UNCHANGED <<settings, rng_state, seed, sessionVars, clamp, thr_y, thr_slug>>

\* i < slug_size: rng() reads the generator state
RaceLoad(t) ==
  /\ thr_pc[t] = "load"
  /\ thr_i[t] < settings.slug_size
  /\ thr_y' = [thr_y EXCEPT ![t] = rng_state]
  /\ thr_pc' = [thr_pc EXCEPT ![t] = "store"]
  /\ UNCHANGED <<settings, rng_state, seed, sessionVars, clamp, thr_i, thr_rslug, thr_slug>>

\* rng() writes the advanced state back and returns the word:
\* rslug[i] = alphanum[rng() % len]; i++
RaceStore(t) ==
  /\ thr_pc[t] = "store"
  /\ rng_state' = rng_advance(thr_y[t])
  /\ thr_rslug' = [thr_rslug EXCEPT ![t] =
        Append(@, StringAt(alphanum, SlugIndex(rng_word(thr_y[t]), Len(alphanum))))]
  /\ thr_i' = [thr_i EXCEPT ![t] = @ + 1]
  /\ thr_pc' = [thr_pc EXCEPT ![t] = "load"]
  /\ UNCHANGED <<settings, seed, sessionVars, clamp, thr_y, thr_slug>>

\* the loop is over: rslug[slug_size] = '\0'; return std::string(rslug)
RaceReturn(t) ==
  /\ thr_pc[t] = "load"
  /\ thr_i[t] >= settings.slug_size
  /\ thr_slug' = [thr_slug EXCEPT ![t] = CStr(Append(thr_rslug[t], NUL))]
  /\ thr_pc' = [thr_pc EXCEPT ![t] = "done"]
  /\ UNCHANGED <<settings, rng_state, seed, sessionVars, clamp, thr_i, thr_y, thr_rslug>>

NextRace ==
  \/ \E t \in Threads : RaceCall(t)
  \/ \E t \in Threads : RaceLoad(t)
  \/ \E t \in Threads : RaceStore(t)
  \/ \E t \in Threads : RaceReturn(t)

SpecRace == Init /\ [][NextRace]_vars

(* ------------------ the copy_size expression alone -------------------- *)
\* capacities around the values where the conversions to int change sign
ClampCaps == {0, 1, 2, Int31 - 1, Int31, Int31 + 1, Uint32 - 1}
\* chunk.size(), a size_t: small sizes, and sizes that do not fit an int
ClampSizes == {0, 1, 2, Int31 - 1, Int31, Uint32 + 1}
\* operands the callback can meet: *read_count is 0, 1 or max_chars
ClampInputs ==
  {[max_chars |-> c, read_count |-> r, chunk_size |-> n, done |-> FALSE, copy_size |-> 0] :
     c \in ClampCaps, r \in {0, 1, Int31, Uint32 - 1}, n \in ClampSizes}

InitClamp ==
  /\ InitProgram
  /\ clamp \in {i \in ClampInputs : i.read_count <= i.max_chars}

\* uint32_t copy_size = std::max<int>(0, std::min<int>(...))
ClampEval ==
  /\ ~clamp.done
  /\ clamp' = [clamp EXCEPT !.done = TRUE,
                            !.copy_size = CopySize(clamp.max_chars, clamp.read_count,
                                                   clamp.chunk_size)]
  /\ UNCHANGED <<settings, rng_state, seed, sessionVars, threadVars>>

NextClamp == ClampEval

SpecClamp == InitClamp /\ [][NextClamp]_vars

(* ------------------------------ claims -------------------------------- *)
\* the content a session has accumulated: the first *read_count bytes of
\* its buffer, which is what it hands to save_buffer
Stored(s) == SubSeq(buffer[s].mem, 1, read_count[s])

\* q is a prefix of r
IsPrefix(q, r) == Len(q) <= Len(r) /\ SubSeq(r, 1, Len(q)) = q

\* the characters 0-9 and a-z
SlugAlphabet == (48..57) \cup (97..122)

\* the last save_buffer call that opened path p
LastWrite(p) ==
  LET I == {i \in DOMAIN writes : writes[i].path = p /\ writes[i].opened}
  IN writes[CHOOSE i \in I : \A j \in I : j <= i]

\* C1 (truncation): a session that has handled its final fragment after
\* receiving more than max_paste_size bytes in all holds exactly the first
\* max_paste_size bytes of the concatenated fragments.
C1_Truncation ==
  \A s \in Sessions :
    (pc[s] = "ended" /\ Len(delivered[s]) > MaxChars(settings))
      => /\ read_count[s] = MaxChars(settings)
         /\ Stored(s) = SubSeq(delivered[s], 1, MaxChars(settings))

\* C2 (exactness below the cap): a session that has handled its final
\* fragment after receiving L <= max_paste_size bytes in all holds exactly
\* the concatenation of its fragments, of length L.
C2_ExactBelowCap ==
  \A s \in Sessions :
    (pc[s] = "ended" /\ Len(delivered[s]) <= MaxChars(settings))
      => /\ read_count[s] = Len(delivered[s])
         /\ Stored(s) = delivered[s]

\* C3 (read-back round trip): after a save whose write succeeded, the file
\* it wrote holds exactly the bytes the session accumulated, zero bytes
\* included, for as long as no later save opens the same path.
C3_ReadBack ==
  \A i \in DOMAIN writes :
    (writes[i].full /\ LastWrite(writes[i].path) = writes[i])
      => files[writes[i].path] = Stored(writes[i].sess)

C5_AbortSafety ==
  [][\A s \in Sessions :
       /\ pc'[s] = "aborted" =>
            /\ ~response'[s].sent
            /\ \A i \in DOMAIN writes' : writes'[i].sess # s
       /\ pc[s] = "aborted" =>
            /\ pc'[s] = "aborted"
            /\ buffer'[s] = buffer[s]
            /\ read_count'[s] = read_count[s]
            /\ delivered'[s] = delivered[s]]_vars
C5_Witness ==
  \E s, r \in Sessions :
    /\ pc[s] = "aborted" /\ Len(delivered[s]) > 0
    /\ pc[r] = "ended" /\ files # <<>>

\* C6 (write failure is not fatal): whenever the write of a save fails
\* (the path cannot be opened, or the write returns a negative status) the
\* save still returns its url and the session sends it as the response.
C6_WriteFailureNonFatal ==
  \A i \in DOMAIN writes :
    (~writes[i].opened \/ writes[i].write_err < 0)
      => /\ ~crashed
         /\ response[writes[i].sess] = [sent |-> TRUE, body |-> writes[i].url]

\* C7 (allocation failure): a request whose buffer could not be allocated
\* makes read_paste fail, has no fragment handler registered and gets no
\* response.
C7_AllocationFailure ==
  \A s \in Sessions :
    (pc[s] # "idle" /\ buffer[s].null)
      => /\ perr[s] # 0
         /\ pc[s] # "open"
         /\ ~response[s].sent

\* C8 (last writer wins): every file holds the content of the last save
\* that opened its path, whole if that write succeeded and a prefix of it
\* otherwise, never bytes of an earlier save; and every save that returned
\* gave its session a url as the response.
C8_LastWriterWins ==
  /\ \A p \in DOMAIN files :
       /\ IsPrefix(files[p], LastWrite(p).content)
       /\ LastWrite(p).full => files[p] = LastWrite(p).content
  /\ \A i \in DOMAIN writes :
       writes[i].opened =>
         /\ response[writes[i].sess].sent
         /\ response[writes[i].sess].body = writes[i].url
C8_Witness ==
  \E i, j \in DOMAIN writes :
    /\ i < j
    /\ writes[i].sess # writes[j].sess
    /\ writes[i].path = writes[j].path
    /\ writes[i].full /\ writes[j].full
    /\ writes[i].content # writes[j].content
    /\ Len(writes[i].content) > 0

\* C9 (the slug generator under concurrent calls): when all threads have
\* returned from random_slug, their slugs and the generator state are what
\* running the calls one after the other, in some order, gives.
C9_RaceSequential ==
  (\A t \in Threads : thr_pc[t] = "done") =>
    \E first \in Threads :
      LET a == random_slug(settings.slug_size, seed)
          b == random_slug(settings.slug_size, a.rng)
      IN /\ thr_slug[first] = a.slug
         /\ \A t \in Threads \ {first} : thr_slug[t] = b.slug
         /\ rng_state = b.rng

\* C10 (slug shape): random_slug(n) returns n characters of 0-9a-z, for
\* every n and every state of the generator, and so does every call a save
\* has made.
C10_SlugShape ==
  /\ \A n \in 0..(MaxSlugSize + 1), st \in 0..(Len(RngWords) - 1) :
       LET slug == random_slug(n, st).slug
       IN Len(slug) = n /\ \A i \in 1..Len(slug) : slug[i] \in SlugAlphabet
  /\ \A i \in DOMAIN writes :
       /\ Len(writes[i].slug) = settings.slug_size
       /\ \A c \in 1..Len(writes[i].slug) : writes[i].slug[c] \in SlugAlphabet
C10_Witness ==
  \E i, j \in DOMAIN writes :
    i # j /\ Len(writes[i].slug) = MaxSlugSize /\ Len(writes[j].slug) = MaxSlugSize

\* C11 (bytes_received is bounded and monotonic): in every state and across
\* every step, *read_count of every session is at most max_paste_size and
\* does not decrease.
C11_BytesReceivedBounded ==
  [][\A s \in Sessions :
       /\ read_count[s] <= MaxChars(settings)
       /\ read_count'[s] <= MaxChars(settings)
       /\ read_count'[s] >= read_count[s]]_vars
C11_Witness ==
  \E s \in Sessions :
    /\ pc[s] = "ended"
    /\ MaxChars(settings) > 0
    /\ read_count[s] = MaxChars(settings)
    /\ Len(delivered[s]) > MaxChars(settings)

\* the sessions that own a live allocation
LiveSessions == {a.sess : a \in heap}

\* C12 (resource lifecycle): the sessions that own a live buffer or counter
\* are exactly the sessions in flight: the allocations are made when the
\* request starts and released when it is answered or aborted.
C12_Lifecycle == LiveSessions = {s \in Sessions : pc[s] = "open"}

\* the fragment a step has delivered to session s (<<>> if none)
Arrived(s) == SubSeq(delivered'[s], Len(delivered[s]) + 1, Len(delivered'[s]))

C16_ExactlyOnce ==
  \A s \in Sessions :
    final_seen[s] =>
      /\ Cardinality({i \in DOMAIN writes : writes[i].sess = s}) = 1
      /\ pc[s] = "ended"
      /\ response[s].sent
      /\ \E i \in DOMAIN writes : writes[i].sess = s /\ response[s].body = writes[i].url

C18_SessionIsolation ==
  [][/\ \A s \in Sessions :
          (buffer'[s] # buffer[s] \/ read_count'[s] # read_count[s] \/ wrote'[s] # wrote[s]) =>
            /\ \/ pc[s] = "idle" /\ pc'[s] = "open"
               \/ pc[s] = "open" /\ (delivered'[s] # delivered[s] \/ final_seen'[s])
            /\ \A r \in Sessions \ {s} :
                 /\ buffer'[r] = buffer[r]
                 /\ read_count'[r] = read_count[r]
                 /\ delivered'[r] = delivered[r]
                 /\ pc'[r] = pc[r]
                 /\ response'[r] = response[r]
     /\ writes' # writes =>
          LET w == writes'[Len(writes')]
          IN w.content = CStr(buffer'[w.sess].mem)]_vars
C18_Witness ==
  \E s, r \in Sessions :
    /\ s # r
    /\ pc[s] = "open" /\ ~buffer[s].null
    /\ delivered[s] = <<97>> /\ buffer[s].mem[1] = 97 /\ read_count[s] = 0
    /\ pc[r] = "ended" /\ delivered[r] = <<NUL>> /\ read_count[r] = 1

\* C19 (clamp arithmetic): the computed copy_size is
\* min(capacity - bytes_received, fragment length), never negative and
\* never more than the remaining capacity.
C19_ClampArithmetic ==
  clamp.done =>
    LET remaining == clamp.max_chars - clamp.read_count
    IN /\ clamp.copy_size = Min(remaining, clamp.chunk_size)
       /\ clamp.copy_size >= 0
       /\ clamp.copy_size <= remaining

\* C20 (two stop conditions): a session that has handled a fragment and
\* still accepts fragments has not reached max_chars: reaching it stops the
\* session just as the final fragment does.
C20_TwoStopConditions ==
  \A s \in Sessions :
    (pc[s] = "open" /\ ~final_seen[s] /\ ~crashed /\ ~buffer[s].null
       /\ Len(delivered[s]) > 0)
      => read_count[s] < MaxChars(settings)

====
